---- MODULE Spec2Model ----
(***************************************************************************)
(* Model of the Rudimentary_C snippets: my_strdup (StrdupFunction.c) over  *)
(* a flat byte-addressed memory, the four qsort demonstrations (main in    *)
(* AscendingOrder.c / DescendingOrder.c for integers and characters) and   *)
(* their four comparators with 32-bit int arithmetic.                      *)
(***************************************************************************)
EXTENDS Integers, Sequences, FiniteSets, TLC

\* ------------------------------------------------------------------------
\* Bounds of the model
\* ------------------------------------------------------------------------
MaxLen == 2
MaxByte == 2
MaxWrites == 2
MaxRounds == 2
NearEdge == 1

\* ------------------------------------------------------------------------
\* Memory layout used for my_strdup
\* ------------------------------------------------------------------------
NULL == 0
Bytes == 0..MaxByte
SrcSize == MaxLen + 1
SrcBase == SrcSize + 1
MemSize == 3 * SrcSize + 1
Addr == 0..(MemSize - 1)
SrcBlock == SrcBase..(SrcBase + SrcSize - 1)

VARIABLES
    mem, s, pc, length, copy, i, ret,
    mem0, reads, wlog, nalloc, reqSize, nwrites, lastWrite

dupVars == <<mem, s, pc, length, copy, i, ret,
             mem0, reads, wlog, nalloc, reqSize, nwrites, lastWrite>>

VARIABLES
    prog, charSigned, arr, arr0, n, spc, si, out, printed, exitCode,
    round, out1

sortVars == <<prog, charSigned, arr, arr0, n, spc, si, out, printed,
              exitCode, round, out1>>

VARIABLES ckind, cChar, ca, cb, cc, cres, cstat

cmpVars == <<ckind, cChar, ca, cb, cc, cres, cstat>>

vars == <<dupVars, sortVars, cmpVars>>

Rd(m, a) == IF a \in Addr THEN m[a] ELSE 0
Wr(m, a, b) == IF a \in Addr THEN [m EXCEPT ![a] = b] ELSE m

\* first index of a zero byte at or after offset k from base p
RECURSIVE FirstZero(_, _, _)
FirstZero(m, p, k) ==
    IF Rd(m, p + k) = 0 THEN k ELSE FirstZero(m, p, k + 1)

\* ------------------------------------------------------------------------
\* my_strdup
\* ------------------------------------------------------------------------
\* faulty variant: the NULL check is missing
IsNull_M(p) == FALSE
IsNull(p) == p = NULL

ScanCond(m, p, len) == Rd(m, p + len) # 0

\* faulty variant: one unit too many is requested
AllocSize_M(len) == len + 2
AllocSize(len) == len + 1

\* faulty variant: the result of malloc is not checked
AllocFailed_M(p) == FALSE
AllocFailed(p) == p = NULL

\* faulty variant: the terminator is not copied
CopyCond_M(k, len) == k < len
CopyCond(k, len) == k <= len

FreeBases(size) ==
    {b \in Addr : /\ b # NULL
                  /\ b + size - 1 \in Addr
                  /\ \A a \in b..(b + size - 1) : a \notin SrcBlock}

\* the parts of the state that belong to the other programs
SortIdle ==
    /\ prog = "none" /\ charSigned = FALSE /\ arr = <<>> /\ arr0 = <<>>
    /\ n = 0 /\ spc = "none" /\ si = 0 /\ out = <<>> /\ printed = <<>>
    /\ exitCode = -1 /\ round = 0 /\ out1 = <<>>

CmpIdle ==
    /\ ckind = "none" /\ cChar = FALSE /\ ca = 0 /\ cb = 0 /\ cc = 0
    /\ cres = <<>> /\ cstat = "none"

DupIdle ==
    /\ mem = <<>> /\ s = NULL /\ pc = "none" /\ length = 0 /\ copy = NULL
    /\ i = 0 /\ ret = NULL /\ mem0 = <<>> /\ reads = {} /\ wlog = <<>>
    /\ nalloc = 0 /\ reqSize = 0 /\ nwrites = 0 /\ lastWrite = "none"

InitDup ==
    /\ \E c \in [SrcBlock -> Bytes] :
          /\ \E a \in SrcBlock : c[a] = 0
          /\ mem = [a \in Addr |-> IF a \in SrcBlock THEN c[a] ELSE 0]
    /\ s \in {NULL, SrcBase}
    /\ pc = "entry"
    /\ length = 0
    /\ copy = NULL
    /\ i = 0
    /\ ret = NULL
    /\ mem0 = mem
    /\ reads = {}
    /\ wlog = <<>>
    /\ nalloc = 0
    /\ reqSize = 0
    /\ nwrites = 0
    /\ lastWrite = "none"
    /\ SortIdle
    /\ CmpIdle

Entry ==
    /\ pc = "entry"
    /\ IF IsNull(s)
         THEN /\ ret' = NULL
              /\ pc' = "done"
              /\ UNCHANGED length
         ELSE /\ length' = 0
              /\ pc' = "scan"
              /\ UNCHANGED ret
    /\ UNCHANGED <<mem, s, copy, i, mem0, reads, wlog, nalloc, reqSize,
                   nwrites, lastWrite>>
    /\ UNCHANGED <<sortVars, cmpVars>>

ScanStep ==
    /\ pc = "scan"
    /\ reads' = reads \cup {s + length}
    /\ IF ScanCond(mem, s, length)
         THEN /\ length' = length + 1
              /\ pc' = "scan"
         ELSE /\ pc' = "alloc"
              /\ UNCHANGED length
    /\ UNCHANGED <<mem, s, copy, i, ret, mem0, wlog, nalloc, reqSize,
                   nwrites, lastWrite>>
    /\ UNCHANGED <<sortVars, cmpVars>>

MallocOk ==
    /\ pc = "alloc"
    /\ \E b \in FreeBases(AllocSize(length)) :
         \E g \in [b..(b + AllocSize(length) - 1) -> Bytes] :
            /\ copy' = b
            /\ mem' = [a \in Addr |-> IF a \in DOMAIN g THEN g[a] ELSE mem[a]]
    /\ nalloc' = nalloc + 1
    /\ reqSize' = AllocSize(length)
    /\ pc' = "check"
    /\ UNCHANGED <<s, length, i, ret, mem0, reads, wlog, nwrites, lastWrite>>
    /\ UNCHANGED <<sortVars, cmpVars>>

MallocFail ==
    /\ pc = "alloc"
    /\ copy' = NULL
    /\ nalloc' = nalloc + 1
    /\ reqSize' = AllocSize(length)
    /\ pc' = "check"
    /\ UNCHANGED <<mem, s, length, i, ret, mem0, reads, wlog, nwrites,
                   lastWrite>>
    /\ UNCHANGED <<sortVars, cmpVars>>

CheckCopy ==
    /\ pc = "check"
    /\ IF AllocFailed(copy)
         THEN /\ ret' = NULL
              /\ pc' = "done"
              /\ UNCHANGED i
         ELSE /\ i' = 0
              /\ pc' = "copy"
              /\ UNCHANGED ret
    /\ UNCHANGED <<mem, s, length, copy, mem0, reads, wlog, nalloc, reqSize,
                   nwrites, lastWrite>>
    /\ UNCHANGED <<sortVars, cmpVars>>

CopyStep ==
    /\ pc = "copy"
    /\ IF CopyCond(i, length)
         THEN /\ mem' = Wr(mem, copy + i, Rd(mem, s + i))
              /\ reads' = reads \cup {s + i}
              /\ wlog' = Append(wlog, copy + i)
              /\ i' = i + 1
              /\ pc' = "copy"
              /\ UNCHANGED ret
         ELSE /\ ret' = copy
              /\ pc' = "done"
              /\ UNCHANGED <<mem, reads, wlog, i>>
    /\ UNCHANGED <<s, length, copy, mem0, nalloc, reqSize, nwrites, lastWrite>>
    /\ UNCHANGED <<sortVars, cmpVars>>

\* the caller, owning both buffers after the return
CallerWriteCopy ==
    /\ pc = "done"
    /\ ret # NULL
    /\ nwrites < MaxWrites
    /\ \E k \in 0..(reqSize - 1), b \in Bytes :
          /\ Rd(mem, ret + k) # b
          /\ mem' = Wr(mem, ret + k, b)
    /\ nwrites' = nwrites + 1
    /\ lastWrite' = "copy"
    /\ UNCHANGED <<s, pc, length, copy, i, ret, mem0, reads, wlog, nalloc,
                   reqSize>>
    /\ UNCHANGED <<sortVars, cmpVars>>

CallerWriteSrc ==
    /\ pc = "done"
    /\ ret # NULL
    /\ s # NULL
    /\ nwrites < MaxWrites
    /\ \E a \in SrcBlock, b \in Bytes :
          /\ mem[a] # b
          /\ mem' = Wr(mem, a, b)
    /\ nwrites' = nwrites + 1
    /\ lastWrite' = "src"
    /\ UNCHANGED <<s, pc, length, copy, i, ret, mem0, reads, wlog, nalloc,
                   reqSize>>
    /\ UNCHANGED <<sortVars, cmpVars>>

NextDup ==
    \/ Entry
    \/ ScanStep
    \/ MallocOk
    \/ MallocFail
    \/ CheckCopy
    \/ CopyStep
    \/ CallerWriteCopy
    \/ CallerWriteSrc

SpecDup == InitDup /\ [][NextDup]_vars

\* ------------------------------------------------------------------------
\* Properties of my_strdup
\* ------------------------------------------------------------------------
StrLen0 == FirstZero(mem0, s, 0)
CopyBlock == copy..(copy + length)

\* what C1 promises of the returned buffer
Duplicated ==
    /\ ret # NULL
    /\ FirstZero(mem, ret, 0) = StrLen0
    /\ \A k \in 0..StrLen0 : Rd(mem, ret + k) = Rd(mem0, s + k)
    /\ \A k \in 0..StrLen0 : (ret + k) \notin SrcBlock
    /\ \A a \in SrcBlock : mem[a] = mem0[a]

\* C1 (state part): a non-NULL terminated input with a successful
\* allocation returns a non-NULL pointer to a buffer disjoint from the
\* input, of the same string length, with the same bytes at 0..length.
C1_AtReturn ==
    (pc = "done" /\ s # NULL /\ copy # NULL /\ nwrites = 0) => Duplicated

\* C1 (state part, as stated): every non-NULL terminated input returns
\* such a buffer, whatever malloc does.
C1_AtReturnAlways ==
    (pc = "done" /\ s # NULL /\ nwrites = 0) => Duplicated

\* C1 (step part): a caller's write to the copy leaves every byte of the
\* input unchanged, and a write to the input leaves the copy unchanged.
C1_Independent ==
    /\ (nwrites' = nwrites + 1 /\ lastWrite' = "copy") =>
          \A a \in SrcBlock : mem'[a] = mem[a]
    /\ (nwrites' = nwrites + 1 /\ lastWrite' = "src") =>
          \A a \in CopyBlock : Rd(mem', a) = Rd(mem, a)

C2_NullInput ==
    s = NULL =>
        /\ pc \in {"entry", "done"}
        /\ ret = NULL
        /\ reads = {}
        /\ wlog = <<>>
        /\ nalloc = 0
        /\ mem = mem0

C2_Witness == s = NULL /\ pc = "done" /\ ret = NULL

\* C3: when malloc fails for a non-NULL input the function returns NULL,
\* the copy loop is never entered, nothing is written and the input is
\* unchanged.
C3_AllocFailure ==
    (s # NULL /\ nalloc = 1 /\ copy = NULL) =>
        /\ pc \in {"check", "done"}
        /\ ret = NULL
        /\ wlog = <<>>
        /\ mem = mem0

C3_Witness ==
    /\ s # NULL /\ nalloc = 1 /\ copy = NULL /\ pc = "done"
    /\ length = MaxLen

\* C10: length is the index of the first zero byte of the input, the
\* request is for exactly length + 1 bytes, the copy loop writes offsets
\* 0..length once each in increasing order and nothing beyond, and no read
\* goes past the input's terminator.
C10_ScanAllocCopy ==
    s # NULL =>
        /\ length <= StrLen0
        /\ pc \in {"alloc", "check", "copy", "done"} => length = StrLen0
        /\ nalloc = 1 => reqSize = StrLen0 + 1
        /\ nalloc <= 1
        /\ Len(wlog) <= StrLen0 + 1
        /\ \A k \in 1..Len(wlog) : wlog[k] = copy + (k - 1)
        /\ (pc = "done" /\ copy # NULL) => Len(wlog) = StrLen0 + 1
        /\ reads \subseteq s..(s + StrLen0)

C10_Witness ==
    /\ s # NULL /\ pc = "done" /\ ret # NULL /\ nwrites = 0
    /\ length = 1
    /\ Len(wlog) = 2
    /\ mem0[s + 2] # 0

\* ------------------------------------------------------------------------
\* 32-bit int arithmetic and the four comparators
\* ------------------------------------------------------------------------
MaxInt == 2147483647
MinInt == -MaxInt - 1

\* a - b overflows the int range
SubOverflows(a, b) ==
    \/ a >= 0 /\ b < 0 /\ a > MaxInt + b
    \/ a < 0 /\ b >= 0 /\ a < MinInt + b

\* a - b reduced modulo 2^32 into MinInt..MaxInt
Sub32(a, b) ==
    IF ~SubOverflows(a, b) THEN a - b
    ELSE IF a >= 0 THEN (a + MinInt) - (b - MinInt)
    ELSE (a - MinInt) - (b + MinInt)

cmp_int(a, b) == Sub32(a, b)

\* faulty variant: the operands are not reversed
cmp_int_desc_M(a, b) == Sub32(a, b)
cmp_int_desc(a, b) == Sub32(b, a)

\* char operands are promoted to int before the subtraction
cmp_char_asc(a, b) == a - b

\* faulty variant: the same operand is used twice
cmp_char_desc_M(a, b) == a - a
cmp_char_desc(a, b) == b - a

Progs == {"IntAsc", "IntDesc", "CharAsc", "CharDesc"}
IntKinds == {"IntAsc", "IntDesc"}
AscKinds == {"IntAsc", "CharAsc"}

\* the comparator each main passes to qsort
Cmp(p, a, b) ==
    CASE p = "IntAsc" -> cmp_int(a, b)
      [] p = "IntDesc" -> cmp_int_desc(a, b)
      [] p = "CharAsc" -> cmp_char_asc(a, b)
      [] p = "CharDesc" -> cmp_char_desc(a, b)

\* ------------------------------------------------------------------------
\* The four demonstrations
\* ------------------------------------------------------------------------
\* value of a char object holding the given byte
ToChar(byte, signed) == IF signed /\ byte >= 128 THEN byte - 256 ELSE byte

\* a char array initialised from a string literal gets the terminator too
\* faulty variant: the terminator is not counted
StrLiteral_M(chars) == chars
StrLiteral(chars) == Append(chars, 0)

ArrInit(p, signed) ==
    CASE p \in IntKinds -> <<5, 2, 9, 1, 5, 6>>
      [] p = "CharAsc" ->
            [k \in 1..Len(StrLiteral(<<115, 97, 108, 97, 109>>)) |->
                ToChar(StrLiteral(<<115, 97, 108, 97, 109>>)[k], signed)]
      [] p = "CharDesc" ->
            [k \in 1..5 |-> ToChar(<<122, 97, 113, 109, 98>>[k], signed)]

\* sizeof(arr) / sizeof(arr[0])
ElemCount(a) == Len(a)

RECURSIVE Digits(_)
Digits(v) ==
    IF v < 10 THEN <<48 + v>> ELSE Digits(v \div 10) \o <<48 + (v % 10)>>

\* bytes written by printf("%d ", x)
\* faulty variant: no space after the number
PrintfD_M(x) == IF x < 0 THEN <<45>> \o Digits(-x) ELSE Digits(x)
PrintfD(x) == (IF x < 0 THEN <<45>> \o Digits(-x) ELSE Digits(x)) \o <<32>>

\* bytes written by printf("%c ", c)
PrintfC(c) == <<(c + 256) % 256, 32>>

PrintElem(p, x) == IF p \in IntKinds THEN PrintfD(x) ELSE PrintfC(x)

\* faulty variant: the loop stops one element short
PrintCond_M(k, cnt) == k < cnt - 1
PrintCond(k, cnt) == k < cnt

Swap(a, x, y) == [a EXCEPT ![x] = a[y], ![y] = a[x]]

InitSort ==
    /\ prog \in Progs
    /\ charSigned \in BOOLEAN
    /\ arr = ArrInit(prog, charSigned)
    /\ arr0 = arr
    /\ n = ElemCount(arr)
    /\ spc = "qsort"
    /\ si = 0
    /\ out = <<>>
    /\ printed = <<>>
    /\ exitCode = -1
    /\ round = 1
    /\ out1 = <<>>
    /\ DupIdle
    /\ CmpIdle

\* one exchange inside qsort: two elements the comparator reports out of
\* order, or reports equal (the sort is not stable)
QsortSwap ==
    /\ spc = "qsort"
    /\ \E x \in 1..n, y \in 1..n :
          /\ x < y
          /\ Cmp(prog, arr[x], arr[y]) >= 0
          /\ arr' = Swap(arr, x, y)
    /\ UNCHANGED <<prog, charSigned, arr0, n, spc, si, out, printed,
                   exitCode, round, out1>>
    /\ UNCHANGED <<dupVars, cmpVars>>

QsortReturn ==
    /\ spc = "qsort"
    /\ \A x \in 1..n, y \in 1..n :
          x < y => Cmp(prog, arr[x], arr[y]) <= 0
    /\ spc' = "print"
    /\ si' = 0
    /\ UNCHANGED <<prog, charSigned, arr, arr0, n, out, printed, exitCode,
                   round, out1>>
    /\ UNCHANGED <<dupVars, cmpVars>>

PrintStep ==
    /\ spc = "print"
    /\ IF PrintCond(si, n)
         THEN /\ out' = out \o PrintElem(prog, arr[si + 1])
              /\ printed' = Append(printed, [idx |-> si, val |-> arr[si + 1]])
              /\ si' = si + 1
              /\ spc' = "print"
         ELSE /\ out' = out \o <<10>>
              /\ spc' = "return"
              /\ UNCHANGED <<printed, si>>
    /\ UNCHANGED <<prog, charSigned, arr, arr0, n, exitCode, round, out1>>
    /\ UNCHANGED <<dupVars, cmpVars>>

MainReturn ==
    /\ spc = "return"
    /\ exitCode' = 0
    /\ spc' = "exited"
    /\ UNCHANGED <<prog, charSigned, arr, arr0, n, si, out, printed, round,
                   out1>>
    /\ UNCHANGED <<dupVars, cmpVars>>

\* the sort-and-render steps of main applied again to the array it left
Reapply ==
    /\ spc = "exited"
    /\ round < MaxRounds
    /\ round' = round + 1
    /\ out1' = out
    /\ out' = <<>>
    /\ printed' = <<>>
    /\ exitCode' = -1
    /\ si' = 0
    /\ spc' = "qsort"
    /\ UNCHANGED <<prog, charSigned, arr, arr0, n>>
    /\ UNCHANGED <<dupVars, cmpVars>>

NextSort ==
    \/ QsortSwap
    \/ QsortReturn
    \/ PrintStep
    \/ MainReturn
    \/ Reapply

SpecSort == InitSort /\ [][NextSort]_vars

\* ------------------------------------------------------------------------
\* Properties of the demonstrations
\* ------------------------------------------------------------------------
AfterSort == spc \in {"print", "return", "exited"}

\* the multiset of a sequence's elements: value |-> number of occurrences
SeqBag(q) ==
    [v \in {q[k] : k \in DOMAIN q} |->
        Cardinality({k \in DOMAIN q : q[k] = v})]

\* the values read back from the rendered text
RECURSIVE ParseD(_, _, _, _, _)
ParseD(o, k, neg, cur, acc) ==
    IF k > Len(o) \/ o[k] = 10 THEN acc
    ELSE IF o[k] = 32
      THEN ParseD(o, k + 1, FALSE, 0, Append(acc, IF neg THEN -cur ELSE cur))
    ELSE IF o[k] = 45 THEN ParseD(o, k + 1, TRUE, cur, acc)
    ELSE ParseD(o, k + 1, neg, cur * 10 + (o[k] - 48), acc)

RenderedValues ==
    IF prog \in IntKinds THEN ParseD(out, 1, FALSE, 0, <<>>)
    ELSE [k \in 1..((Len(out) - 1) \div 2) |->
             ToChar(out[2 * k - 1], charSigned)]

\* C4: after the sort step every adjacent pair satisfies
\* comparator(arr[i], arr[i+1]) <= 0: non-decreasing for the ascending
\* demonstrations, non-increasing for the descending ones.
C4_SortedAfterQsort ==
    AfterSort =>
        \A k \in 1..(n - 1) :
            /\ Cmp(prog, arr[k], arr[k + 1]) <= 0
            /\ prog \in AscKinds => arr[k] <= arr[k + 1]
            /\ prog \notin AscKinds => arr[k] >= arr[k + 1]

C4_Witness ==
    /\ prog = "IntDesc" /\ spc = "print" /\ round = 1
    /\ arr = <<9, 6, 5, 5, 2, 1>>

\* C5: the sort only permutes the array, the print loop emits positions
\* 0..n-1 once each in index order, and the multiset of rendered values
\* equals the multiset of the initial array.
C5_MultisetPreserved ==
    /\ spc # "none" => SeqBag(arr) = SeqBag(arr0)
    /\ spc # "none" =>
          \A k \in 1..Len(printed) :
              printed[k].idx = k - 1 /\ printed[k].val = arr[k]
    /\ spc \in {"return", "exited"} =>
          /\ Len(printed) = n
          /\ Len(RenderedValues) = n
          /\ SeqBag(RenderedValues) = SeqBag(arr0)
          /\ RenderedValues = arr

C5_Witness ==
    /\ prog = "CharAsc" /\ spc = "exited" /\ round = 1
    /\ Len(printed) = 6
    /\ arr # arr0

\* C6: the integer ascending, integer descending and character descending
\* demonstrations print exactly "1 2 5 5 6 9 \n", "9 6 5 5 2 1 \n" and
\* "z q m b a \n", then finish with exit code 0.
C6_ExactOutput ==
    spc = "exited" =>
        /\ exitCode = 0
        /\ prog = "IntAsc" =>
              out = <<49, 32, 50, 32, 53, 32, 53, 32, 54, 32, 57, 32, 10>>
        /\ prog = "IntDesc" =>
              out = <<57, 32, 54, 32, 53, 32, 53, 32, 50, 32, 49, 32, 10>>
        /\ prog = "CharDesc" =>
              out = <<122, 32, 113, 32, 109, 32, 98, 32, 97, 32, 10>>

C6_Witness == prog = "IntAsc" /\ spc = "exited" /\ round = 1 /\ exitCode = 0

\* C7: the character ascending demonstration sorts and prints 6 elements:
\* the terminator of "salam" is counted, sorts to index 0, and the output
\* is terminator, a, a, l, m, s, each followed by a space, then a newline.
C7_TerminatorSorted ==
    prog = "CharAsc" =>
        /\ n = 6
        /\ AfterSort => arr[1] = 0
        /\ spc = "exited" =>
              out = <<0, 32, 97, 32, 97, 32, 108, 32, 109, 32, 115, 32, 10>>

C7_Witness == prog = "CharAsc" /\ spc = "exited" /\ arr[1] = 0 /\ n = 6

\* C8: sorting the already sorted array again with the same comparator and
\* rendering it again gives the same text as the first application.
C8_Idempotent ==
    (round >= 2 /\ spc = "exited") => out = out1

C8_Witness ==
    /\ prog = "IntAsc" /\ round = 2 /\ spc = "exited"
    /\ out1 # <<>>

\* ------------------------------------------------------------------------
\* The comparators applied to arbitrary operands
\* ------------------------------------------------------------------------
IntSamples ==
    {MinInt + k : k \in 0..NearEdge} \cup ((-NearEdge)..NearEdge)
        \cup {MaxInt - k : k \in 0..NearEdge}

CharSamples(signed) ==
    {ToChar(b, signed) :
        b \in (0..NearEdge) \cup ((127 - NearEdge)..(128 + NearEdge))
                \cup ((255 - NearEdge)..255)}

Operands(p, signed) ==
    IF p \in IntKinds THEN IntSamples ELSE CharSamples(signed)

InitCmp ==
    /\ ckind \in Progs
    /\ cChar \in (IF ckind \in IntKinds THEN {FALSE} ELSE BOOLEAN)
    /\ ca \in Operands(ckind, cChar)
    /\ cb \in Operands(ckind, cChar)
    /\ cc \in Operands(ckind, cChar)
    /\ cres = <<>>
    /\ cstat = "ready"
    /\ DupIdle
    /\ SortIdle

\* the subtraction of the comparator called on (a, b) leaves the int range
CmpOverflows(p, a, b) ==
    CASE p = "IntAsc" -> SubOverflows(a, b)
      [] p = "IntDesc" -> SubOverflows(b, a)
      [] OTHER -> FALSE

\* the comparator is called on the pairs of the three operands and returns
CmpCall ==
    /\ cstat = "ready"
    /\ cres' = [ab |-> Cmp(ckind, ca, cb), ba |-> Cmp(ckind, cb, ca),
                bc |-> Cmp(ckind, cb, cc), ac |-> Cmp(ckind, ca, cc)]
    /\ cstat' = "returned"
    /\ UNCHANGED <<ckind, cChar, ca, cb, cc>>
    /\ UNCHANGED <<dupVars, sortVars>>

\* signed overflow is undefined: a build that traps on it aborts instead
CmpTrap ==
    /\ cstat = "ready"
    /\ \/ CmpOverflows(ckind, ca, cb)
       \/ CmpOverflows(ckind, cb, ca)
       \/ CmpOverflows(ckind, cb, cc)
       \/ CmpOverflows(ckind, ca, cc)
    /\ cstat' = "trapped"
    /\ UNCHANGED <<ckind, cChar, ca, cb, cc, cres>>
    /\ UNCHANGED <<dupVars, sortVars>>

NextCmp ==
    \/ CmpCall
    \/ CmpTrap

SpecCmp == InitCmp /\ [][NextCmp]_vars

Sgn(x) == IF x < 0 THEN -1 ELSE IF x = 0 THEN 0 ELSE 1

\* -1, 0 or 1 as a comes before, equals or comes after b in the order the
\* demonstration intends
Intended(p, a, b) ==
    IF p \in AscKinds THEN (IF a < b THEN -1 ELSE IF a = b THEN 0 ELSE 1)
    ELSE (IF a > b THEN -1 ELSE IF a = b THEN 0 ELSE 1)

\* C9: each comparator's result is negative, zero or positive exactly as
\* a comes before, equals or comes after b in the intended order, and the
\* relation is antisymmetric and transitive, for all operands of its type.
C9_TotalOrder ==
    cstat = "returned" =>
        /\ Sgn(cres.ab) = Intended(ckind, ca, cb)
        /\ Sgn(cres.ab) = -Sgn(cres.ba)
        /\ (cres.ab <= 0 /\ cres.bc <= 0) => cres.ac <= 0

====
